---- MODULE Spec2Model ----
(***************************************************************************)
(* Route-Crafter: the admission controller of app.py (generate_gpx_route)  *)
(* and the Eulerian traversal of generate_gpx.py                           *)
(* (hierholzer_forward_prefer).                                            *)
(*                                                                         *)
(* Spec      : concurrent request handlers of generate_gpx_route, one      *)
(*             thread per request, interleaved at the granularity of the   *)
(*             accesses to the shared active_requests / simultaneous_lock. *)
(* SpecSeq   : the same handlers under a workload in which a request       *)
(*             arrives once the earlier ones are blocked in communicate()  *)
(*             or answered (more requests, no overlap of handler code).    *)
(* SpecEuler : one call of hierholzer_forward_prefer(network, source) on   *)
(*             every small undirected network, one action per loop         *)
(*             iteration.                                                  *)
(* SpecAugment : lines 37-45 of generate_gpx on every small connected      *)
(*             weighted multigraph: odd nodes, pair distances, minimum     *)
(*             matching, added edges, the Network.                         *)
(* SpecExchange : one request's data from request.get_json() through       *)
(*             json.dumps / stdin / json.load to the calls of generate_gpx *)
(*             (app.py 39-78, generate_gpx.py 135-140 and 22-28).          *)
(***************************************************************************)
EXTENDS Integers, Sequences, FiniteSets, Bags, TLC

\* ------------------------------------------------------------------ bounds
MaxRequests == 2      \* Spec: requests that arrive in one behaviour
MaxClients  == 2      \* Spec: distinct client addresses
SeqRequests == 6      \* SpecSeq: requests that arrive in one behaviour
SeqClients  == 6      \* SpecSeq: distinct client addresses
MaxPoints   == 3      \* longest polygon_coords list of a request
MaxNodes    == 3      \* SpecEuler: largest network.n
MaxEdges    == 4      \* SpecEuler: most edges (with multiplicity) of a network
GraphNodes  == 4      \* SpecAugment: most nodes of the street graph
GraphEdges  == 3      \* SpecAugment: most edges of the street graph
MaxWeight   == 2      \* SpecAugment: longest edge ("length" attribute)
MaxCoord    == 1      \* SpecExchange: largest coordinate of a polygon point

\* ------------------------------------------------------- program constants
K == 4                \* simultaneous_lock = Semaphore(4)

VARIABLES
  active_requests,    \* defaultdict(int): client_ip -> counter (keys made on access)
  simultaneous_lock,  \* the Semaphore's internal value (free permits)
  req,                \* bag of requests: each handler thread's locals and position
  workload,           \* the load of this behaviour (never changes)
  network,            \* the Network handed to hierholzer_forward_prefer
  source,             \* its source argument
  pc,                 \* position in hierholzer_forward_prefer
  degrees_list,       \* the working copies (deepcopy) and locals of the call
  edges_basket,
  temp_path,
  temp_node,
  path,
  result,             \* what the call returned or raised
  graph,              \* generate_gpx: the undirected street graph (line 31)
  gpc,                \* position in generate_gpx
  odd_degree_nodes,   \* its locals, lines 37-43
  pair_weights,
  matched_edges_with_weights,
  single_edges,
  added_edges,
  network_edges,      \* `edges` of line 43
  data,               \* app.py: request.get_json()
  polygon_coords,     \* app.py: the handler's locals, lines 40-43
  truncate_by_edge,
  consolidate_tolerance,
  custom_filter,
  input_data,         \* app.py line 71
  stdin,              \* the JSON text on the worker's standard input
  worker_polygon_coords,  \* generate_gpx.py line 137: `polygon_coords`
  polygon,            \* generate_gpx.py line 24: the argument of Polygon()
  extraction,         \* the arguments of lines 25 and 28
  xpc                 \* position in the exchange

admVars == <<active_requests, simultaneous_lock, req, workload>>
eulerVars == <<network, source, pc, degrees_list, edges_basket, temp_path,
               temp_node, path, result>>
augVars == <<graph, gpc, odd_degree_nodes, pair_weights, matched_edges_with_weights,
             single_edges, added_edges, network_edges>>
xchVars == <<data, polygon_coords, truncate_by_edge, consolidate_tolerance,
             custom_filter, input_data, stdin, worker_polygon_coords, polygon,
             extraction, xpc>>
workerVars == <<augVars, xchVars>>
vars == <<active_requests, simultaneous_lock, req, workload, network, source, pc,
          degrees_list, edges_basket, temp_path, temp_node, path, result,
          graph, gpc, odd_degree_nodes, pair_weights, matched_edges_with_weights,
          single_edges, added_edges, network_edges,
          data, polygon_coords, truncate_by_edge, consolidate_tolerance,
          custom_filter, input_data, stdin, worker_polygon_coords, polygon,
          extraction, xpc>>

\* ---------------------------------------------------------------- requests
\* request.get_json() of a request: no JSON body (data is None, so data.get
\* raises), or a body whose polygon_coords is missing (None), is a value that
\* is no list, or is a list of len points.
NoBody == [kind |-> "nobody", len |-> 0]
Bodies ==
  {NoBody, [kind |-> "missing", len |-> 0], [kind |-> "notlist", len |-> 0]}
    \cup {[kind |-> "list", len |-> l] : l \in 0..MaxPoints}

Unread == [kind |-> "unread", len |-> 0]

NoResponse == [status |-> 0, key |-> "none", value |-> "none"]
\* jsonify({key: value}), status
Resp(s, k, v) == [status |-> s, key |-> k, value |-> v]

\* The handler of a request of client c, entered (line 28 done).
Handler(c) ==
  [pc |-> "L31", client_ip |-> c, data |-> Unread, tmp |-> 0,
   process |-> "none", stdout |-> "none", response |-> NoResponse]

\* The handler has returned: its locals are gone, the response is delivered.
Answered(rec) ==
  [pc |-> "done", client_ip |-> 0, data |-> Unread, tmp |-> 0,
   process |-> "none", stdout |-> "none", response |-> rec.response]

\* defaultdict(int).__getitem__: a missing key reads as 0 (and is inserted).
Active(c) == IF c \in DOMAIN active_requests THEN active_requests[c] ELSE 0
Touch(c) == IF c \in DOMAIN active_requests THEN active_requests
            ELSE [k \in DOMAIN active_requests \cup {c} |->
                    IF k = c THEN 0 ELSE active_requests[k]]
Store(c, v) == [k \in DOMAIN active_requests \cup {c} |->
                  IF k = c THEN v ELSE active_requests[k]]

InFlight == {rec \in BagToSet(req) : rec.pc # "done"}
\* handler threads that are executing handler code (not blocked in communicate)
Busy == {rec \in InFlight : rec.pc # "L78"}
Count(S) == LET n[T \in SUBSET S] ==
                  IF T = {} THEN 0
                  ELSE LET x == CHOOSE y \in T : TRUE
                       IN CopiesIn(x, req) + n[T \ {x}]
            IN n[S]

\* client addresses are numbered in their order of first appearance
Known == DOMAIN active_requests \cup {rec.client_ip : rec \in InFlight}
Addresses == {c \in 1..workload.clients : c <= Cardinality(Known) + 1}

\* `not polygon_coords or not isinstance(polygon_coords, list)`
InvalidPolygon(d) == d.kind # "list" \/ d.len = 0

\* What the worker process (generate_gpx.py __main__) prints and exits with:
\* generate_gpx returns the payload, or str(e) for every exception it
\* catches, and __main__ prints it; a crash outside generate_gpx ends with a
\* non-zero return code. Polygon() of fewer than 3 points raises.
WorkerResults(d) ==
  IF d.len < 3 THEN {[returncode |-> 0, stdout |-> "message"]}
  ELSE {[returncode |-> 0, stdout |-> "payload"],
        [returncode |-> 0, stdout |-> "message"],
        [returncode |-> 1, stdout |-> "none"]}

\* lines 80-95: the response computed from the finished worker.
\* stdout "json_error" is a JSON object with an 'error' key; "payload" and
\* "message" are no JSON: json.loads raises JSONDecodeError, which is passed.
WorkerResponse(returncode, stdout) ==
  IF returncode # 0 THEN Resp(500, "error", "stderr")
  ELSE IF stdout = "json_error" THEN Resp(500, "error", "worker_error")
  ELSE Resp(200, "gpx", stdout)

\* a timeout answered with whatever the worker had written so far
TimeoutResponsePartial == Resp(200, "gpx", "partial")

\* lines 96-98
TimeoutResponse == Resp(500, "error", "took_too_long")

\* requests: how many arrive; handlers: how many execute handler code at
\* once; clients: how many addresses they come from; bodies: their bodies.
Load(n, h, c, b) == [requests |-> n, handlers |-> h, clients |-> c, bodies |-> b]

InitAdmission ==
  /\ active_requests = << >>
  /\ simultaneous_lock = K
  /\ req = EmptyBag

\* No call of hierholzer_forward_prefer is under way.
NoCall ==
  /\ network = [n |-> 0, directed |-> FALSE, edges |-> << >>,
                degrees_list |-> << >>, edges_basket |-> << >>]
  /\ source = 0
  /\ pc = "idle"
  /\ degrees_list = << >>
  /\ edges_basket = << >>
  /\ temp_path = << >>
  /\ temp_node = 0
  /\ path = << >>
  /\ result = "none"

\* Python values, tagged with their type.
PyNone == [type |-> "NoneType"]
PyBool(b) == [type |-> "bool", bool |-> b]
PyInt(i) == [type |-> "int", int |-> i]
PyStr(s) == [type |-> "str", str |-> s]
PyList(items) == [type |-> "list", items |-> items]
\* a dict: its <<key, value>> entries in insertion order
PyDict(entries) == [type |-> "dict", entries |-> entries]

\* the extraction has not been called
NotExtracted ==
  [called |-> FALSE, custom_filter |-> PyNone, truncate_by_edge |-> PyNone,
   tolerance |-> PyNone]

\* No request's data is being handed to a worker.
NoExchange ==
  /\ data = PyNone
  /\ polygon_coords = PyNone
  /\ truncate_by_edge = PyNone
  /\ consolidate_tolerance = PyNone
  /\ custom_filter = PyNone
  /\ input_data = PyNone
  /\ stdin = << >>
  /\ worker_polygon_coords = PyNone
  /\ polygon = PyNone
  /\ extraction = NotExtracted
  /\ xpc = "idle"

\* lines 37-45 of generate_gpx are not running.
NoAugment ==
  /\ graph = [nodes |-> << >>, edges |-> << >>]
  /\ gpc = "idle"
  /\ odd_degree_nodes = {}
  /\ pair_weights = << >>
  /\ matched_edges_with_weights = {}
  /\ single_edges = << >>
  /\ added_edges = << >>
  /\ network_edges = << >>

NoPipeline == NoAugment /\ NoExchange

Init ==
  /\ InitAdmission
  /\ workload = Load(MaxRequests, MaxRequests, MaxClients, Bodies)
  /\ NoCall
  /\ NoPipeline

InitSeq ==
  /\ InitAdmission
  /\ workload = Load(SeqRequests, 1, SeqClients, {b \in Bodies : b.len >= 3})
  /\ NoCall
  /\ NoPipeline

Step(old, new) == req' = (req (-) SetToBag({old})) (+) SetToBag({new})

\* A request arrives: Flask starts a handler thread; line 28.
\* workload.handlers bounds the handlers that execute handler code at once
\* (all of them in Spec; one in SpecSeq, where a request arrives, and a
\* worker ends, only while no other handler is between two of its steps).
Arrive ==
  /\ BagCardinality(req) < workload.requests
  /\ Count(Busy) < workload.handlers
  /\ \E c \in Addresses : req' = req (+) SetToBag({Handler(c)})
  /\ UNCHANGED <<active_requests, simultaneous_lock, workload, eulerVars, workerVars>>

\* a per-client check that waits for the client's earlier request
CheckClientWaits ==
  \E rec \in InFlight :
    /\ rec.pc = "L31"
    /\ Active(rec.client_ip) <= 0
    /\ active_requests' = Touch(rec.client_ip)
    /\ Step(rec, [rec EXCEPT !.pc = "L35"])
    /\ UNCHANGED <<simultaneous_lock, workload, eulerVars, workerVars>>

\* line 31-32: the per-client check.
CheckClient ==
  \E rec \in InFlight :
    /\ rec.pc = "L31"
    /\ active_requests' = Touch(rec.client_ip)
    /\ IF Active(rec.client_ip) > 0
         THEN Step(rec, [rec EXCEPT !.pc = "L103",
                                    !.response = Resp(429, "error", "already_generating")])
         ELSE Step(rec, [rec EXCEPT !.pc = "L35"])
    /\ UNCHANGED <<simultaneous_lock, workload, eulerVars, workerVars>>

\* line 35-36: simultaneous_lock.acquire(blocking=False).
Acquire ==
  \E rec \in InFlight :
    /\ rec.pc = "L35"
    /\ IF simultaneous_lock > 0
         THEN /\ simultaneous_lock' = simultaneous_lock - 1
              /\ Step(rec, [rec EXCEPT !.pc = "L38"])
         ELSE /\ UNCHANGED simultaneous_lock
              /\ Step(rec, [rec EXCEPT !.pc = "L103",
                                       !.response = Resp(429, "error", "too_many")])
    /\ UNCHANGED <<active_requests, workload, eulerVars, workerVars>>

\* line 38: active_requests[client_ip] += 1 is a read ...
IncrementLoad ==
  \E rec \in InFlight :
    /\ rec.pc = "L38"
    /\ Step(rec, [rec EXCEPT !.pc = "L38w", !.tmp = Active(rec.client_ip)])
    /\ active_requests' = Touch(rec.client_ip)
    /\ UNCHANGED <<simultaneous_lock, workload, eulerVars, workerVars>>

\* ... followed by a write; no lock is held between the two.
IncrementStore ==
  \E rec \in InFlight :
    /\ rec.pc = "L38w"
    /\ active_requests' = Store(rec.client_ip, rec.tmp + 1)
    /\ Step(rec, [rec EXCEPT !.pc = "L39", !.tmp = 0])
    /\ UNCHANGED <<simultaneous_lock, workload, eulerVars, workerVars>>

\* lines 39-67: read the body, validate it, start the worker (Popen).
ParseAndSpawn ==
  \E rec \in InFlight :
    /\ rec.pc = "L39"
    /\ \E d \in workload.bodies :
         IF d = NoBody
           THEN \* data.get raises; `except Exception`, lines 100-101
                Step(rec, [rec EXCEPT !.pc = "L103", !.data = d,
                                      !.response = Resp(500, "error", "exception")])
           ELSE IF InvalidPolygon(d)
           THEN Step(rec, [rec EXCEPT !.pc = "L103", !.data = d,
                                      !.response = Resp(400, "error", "invalid_polygon")])
           ELSE Step(rec, [rec EXCEPT !.pc = "L78", !.data = d, !.process = "running"])
    /\ UNCHANGED <<active_requests, simultaneous_lock, workload, eulerVars, workerVars>>

\* lines 78-95: communicate() returns with the worker's output.
Communicate ==
  \E rec \in InFlight :
    /\ rec.pc = "L78"
    /\ Count(Busy) < workload.handlers
    /\ \E w \in WorkerResults(rec.data) :
         Step(rec, [rec EXCEPT !.pc = "L103", !.process = "exited",
                               !.stdout = w.stdout,
                               !.response = WorkerResponse(w.returncode, w.stdout)])
    /\ UNCHANGED <<active_requests, simultaneous_lock, workload, eulerVars, workerVars>>

\* lines 96-98: communicate() raises TimeoutExpired; process.kill().
TimeoutExpired ==
  \E rec \in InFlight :
    /\ rec.pc = "L78"
    /\ Count(Busy) < workload.handlers
    /\ Step(rec, [rec EXCEPT !.pc = "L103", !.process = "killed",
                             !.response = TimeoutResponse])
    /\ UNCHANGED <<active_requests, simultaneous_lock, workload, eulerVars, workerVars>>

\* line 103, in `finally`: active_requests[client_ip] -= 1 is a read ...
DecrementLoad ==
  \E rec \in InFlight :
    /\ rec.pc = "L103"
    /\ Step(rec, [rec EXCEPT !.pc = "L103w", !.tmp = Active(rec.client_ip)])
    /\ active_requests' = Touch(rec.client_ip)
    /\ UNCHANGED <<simultaneous_lock, workload, eulerVars, workerVars>>

\* ... and a write.
DecrementStore ==
  \E rec \in InFlight :
    /\ rec.pc = "L103w"
    /\ active_requests' = Store(rec.client_ip, rec.tmp - 1)
    /\ Step(rec, [rec EXCEPT !.pc = "L104", !.tmp = 0])
    /\ UNCHANGED <<simultaneous_lock, workload, eulerVars, workerVars>>

\* line 104: simultaneous_lock.release(); the handler returns its response.
Release ==
  \E rec \in InFlight :
    /\ rec.pc = "L104"
    /\ simultaneous_lock' = simultaneous_lock + 1
    /\ Step(rec, Answered(rec))
    /\ UNCHANGED <<active_requests, workload, eulerVars, workerVars>>

Next ==
  \/ Arrive
  \/ CheckClient
  \/ Acquire
  \/ IncrementLoad
  \/ IncrementStore
  \/ ParseAndSpawn
  \/ Communicate
  \/ TimeoutExpired
  \/ DecrementLoad
  \/ DecrementStore
  \/ Release

Spec == Init /\ [][Next]_vars

SpecSeq == InitSeq /\ [][Next]_vars

\* a step of a handler thread
HandlerStep ==
  \/ CheckClient
  \/ Acquire
  \/ IncrementLoad
  \/ IncrementStore
  \/ ParseAndSpawn
  \/ Communicate
  \/ TimeoutExpired
  \/ DecrementLoad
  \/ DecrementStore
  \/ Release

\* Handler threads keep being scheduled, and communicate() returns: the
\* worker exits or the timeout of line 78 expires.
SpecFair == Spec /\ WF_vars(HandlerStep)


\* ------------------------------------------------------------------ claims
\* a request answered, or about to be, with one of the two 429 rejections
Rejected(rec) == rec.response.value \in {"already_generating", "too_many"}

\* admitted and unfinished: holds a permit of simultaneous_lock
Admitted(rec) ==
  \/ rec.pc \in {"L38", "L38w", "L39", "L78"}
  \/ rec.pc \in {"L103", "L103w", "L104"} /\ ~Rejected(rec)

\* admitted, and its increment of active_requests is in effect
Counted(rec) ==
  \/ rec.pc \in {"L39", "L78"}
  \/ rec.pc \in {"L103", "L103w"} /\ ~Rejected(rec)

\* this step is a step of the handler in state rec
Stepped(rec) == CopiesIn(rec, req') < CopiesIn(rec, req)

\* requests whose worker subprocess is running
Workers == {rec \in InFlight : rec.process = "running"}

Min(a, b) == IF a <= b THEN a ELSE b

\* C1: at most K worker subprocesses run at the same time.
C1_AtMostKWorkers == Count(Workers) <= K

\* C2: at most one worker per client address runs at any time.
C2_OneWorkerPerClient ==
  \A c \in Known : Count({rec \in Workers : rec.client_ip = c}) <= 1

\* C3: the free permits plus the admitted unfinished requests are K, and
\* active_requests[c] is the number of admitted unfinished requests of c.
C3_ReleasedExactlyOnce ==
  /\ simultaneous_lock + Count({rec \in InFlight : Admitted(rec)}) = K
  /\ \A c \in Known :
       Active(c) = Count({rec \in InFlight : rec.client_ip = c /\ Counted(rec)})

\* C4: no step of a rejected request changes active_requests or the free
\* permits of simultaneous_lock.
C4_RejectionConsumesNothing ==
  [][\A rec \in InFlight :
       (Rejected(rec) /\ Stepped(rec))
         => UNCHANGED <<active_requests, simultaneous_lock>>]_vars

\* C5: a client with no admitted unfinished request passes the per-client
\* check of line 31 (its counter is not positive).
C5_NoFlagLeftSet ==
  \A c \in Known :
    (\A rec \in InFlight : rec.client_ip = c => ~Admitted(rec)) => Active(c) <= 0

\* C6: a worker that printed an exception's message is answered with 500
\* {error}, and 200 {gpx} is answered only for a track payload.
C6_WorkerFailureIs500 ==
  \A rec \in InFlight :
    /\ rec.stdout = "message" =>
         rec.response.status = 500 /\ rec.response.key = "error"
    /\ (rec.response.status = 200 \/ rec.response.key = "gpx") =>
         rec.stdout = "payload"

\* C7: once communicate() is left the worker no longer runs; a worker that
\* timed out was killed and its request is answered 500 {error}; a gpx
\* field only comes from a worker that exited.
C7_TimeoutKillsAndFails ==
  \A rec \in InFlight :
    /\ rec.pc \in {"L103", "L103w", "L104"} => rec.process # "running"
    /\ rec.process = "killed" =>
         /\ rec.response.status = 500
         /\ rec.response.key = "error"
         /\ rec.response.value = "took_too_long"
    /\ rec.response.key = "gpx" => rec.process = "exited"

\* a request whose worker timed out, about to return its response
C7_Witness ==
  \E rec \in InFlight :
    /\ rec.pc = "L104"
    /\ rec.process = "killed"
    /\ rec.data.len >= 3
    /\ rec.response.status = 500

\* C8: a request with no body, no polygon_coords, a polygon_coords that is
\* no list or has fewer than 3 points starts no worker and is answered 400.
C8_BadPolygonIs400 ==
  \A rec \in InFlight :
    (rec.data # Unread /\ (rec.data.kind # "list" \/ rec.data.len < 3)) =>
      rec.process = "none" /\ rec.response.status = 400

\* C9: when all N requests so far came from N distinct addresses, all are
\* past admission and no admitted one has left communicate(), min(N, K) of
\* them are admitted and the other N - min(N, K) rejected.
C9_BurstAdmitsMinNK ==
  LET N == BagCardinality(req)
      admitted == {rec \in InFlight : rec.pc \in {"L38", "L38w", "L39", "L78"}}
      rejected == {rec \in BagToSet(req) : Rejected(rec)}
  IN (/\ Cardinality(DOMAIN active_requests) = N
      /\ Count(admitted) + Count(rejected) = N)
     => /\ Count(admitted) = Min(N, K)
        /\ Count(rejected) = N - Min(N, K)

\* the handlers at position p
At(p) == {rec \in InFlight : rec.pc = p}

Nodes(n) == 0..(n - 1)

\* Network(n, edges): an undirected network keeps, per node, the list of the
\* other ends of its edges in the order of `edges` (a self-loop is listed
\* twice), and its degree.
RECURSIVE Basket(_, _)
Basket(u, edges) ==
  IF edges = << >> THEN << >>
  ELSE LET e == Head(edges)
       IN (IF e[1] = u THEN <<e[2]>> ELSE << >>)
            \o (IF e[2] = u THEN <<e[1]>> ELSE << >>)
            \o Basket(u, Tail(edges))

MakeNetwork(n, edges) ==
  [n |-> n, directed |-> FALSE, edges |-> edges,
   degrees_list |-> [u \in Nodes(n) |-> Len(Basket(u, edges))],
   edges_basket |-> [u \in Nodes(n) |-> Basket(u, edges)]]

EdgeLists(n) ==
  UNION {[1..m -> {<<i, j>> : i \in Nodes(n), j \in Nodes(n)} \cap
                  {e \in Nat \X Nat : e[1] <= e[2]}] : m \in 0..MaxEdges}

\* the square 0-1-2-3-0 of the end-to-end scenario
Square == MakeNetwork(4, <<<<0, 1>>, <<1, 2>>, <<2, 3>>, <<0, 3>>>>)

InitEuler ==
  /\ InitAdmission
  /\ workload = Load(0, 0, 0, {})
  /\ \/ \E n \in 0..MaxNodes :
          /\ \E edges \in EdgeLists(n) : network = MakeNetwork(n, edges)
          /\ source \in 0..(n + 1)
     \/ /\ network = Square
        /\ source \in 0..(Square.n + 1)
  /\ pc = "start"
  /\ degrees_list = << >>
  /\ edges_basket = << >>
  /\ temp_path = << >>
  /\ temp_node = 0
  /\ path = << >>
  /\ result = "none"
  /\ NoPipeline

\* a del that removes the entry before the one asked for
RemoveAtOffByOne(seq, i) ==
  IF i > 1 THEN SubSeq(seq, 1, i - 2) \o SubSeq(seq, i, Len(seq))
  ELSE SubSeq(seq, 2, Len(seq))

\* a del that removes nothing
RemoveAtNothing(seq, i) == seq

\* del seq[i]  (i counted from 1 here, from 0 in the source)
RemoveAt(seq, i) == SubSeq(seq, 1, i - 1) \o SubSeq(seq, i + 1, Len(seq))

\* seq.index(x): the first position of x (0 when absent: ValueError)
IndexOf(seq, x) ==
  IF \E i \in 1..Len(seq) : seq[i] = x
    THEN CHOOSE i \in 1..Len(seq) : seq[i] = x /\ \A j \in 1..(i - 1) : seq[j] # x
    ELSE 0

\* the plain choice: always the last entry
ChosenIndexLast(neighbors, prev) == Len(neighbors)

\* lines 106-113: the last entry that is not prev_node, else the last entry.
\* prev is -1 for None.
ChosenIndex(neighbors, prev) ==
  IF prev # -1 /\ \E i \in 1..Len(neighbors) : neighbors[i] # prev
    THEN CHOOSE i \in 1..Len(neighbors) :
           neighbors[i] # prev /\ \A j \in (i + 1)..Len(neighbors) : neighbors[j] = prev
    ELSE Len(neighbors)

\* an odd-degree test that asks for every node to be odd
NotEulerianAll(degrees) == \A u \in DOMAIN degrees : degrees[u] % 2 # 0

\* `any(d % 2 != 0 for d in degrees_list)`
NotEulerian(degrees) == \E u \in DOMAIN degrees : degrees[u] % 2 # 0

\* lines 80-96: the checks, the copies, the seed of the stack.
Start ==
  /\ pc = "start"
  /\ IF source > network.n
       THEN /\ pc' = "raised"
            /\ result' = "SourceNotInNetwork"
            /\ UNCHANGED <<degrees_list, edges_basket, temp_path, temp_node, path>>
       ELSE /\ degrees_list' = network.degrees_list
            /\ edges_basket' = network.edges_basket
            /\ path' = << >>
            /\ IF network.n = 0
                 THEN /\ pc' = "done"
                      /\ result' = "returned"
                      /\ UNCHANGED <<temp_path, temp_node>>
                 ELSE IF NotEulerian(network.degrees_list)
                 THEN /\ pc' = "raised"
                      /\ result' = "NotEulerian"
                      /\ UNCHANGED <<temp_path, temp_node>>
                 ELSE /\ pc' = "loop"
                      /\ temp_path' = <<source>>
                      /\ temp_node' = source
                      /\ UNCHANGED result
  /\ UNCHANGED <<network, source, admVars, workerVars>>

\* line 99 with temp_node no index of degrees_list: IndexError.
RaiseIndexError ==
  /\ pc = "loop"
  /\ Len(temp_path) > 0
  /\ temp_node \notin DOMAIN degrees_list
  /\ pc' = "raised"
  /\ result' = "IndexError"
  /\ UNCHANGED <<network, source, degrees_list, edges_basket, temp_path, temp_node,
                 path, admVars, workerVars>>

\* copy.copy in place of deepcopy: the bags of the working edges_basket are
\* the network's own lists
CallersNetworkShallow(net, degrees, basket) == [net EXCEPT !.edges_basket = basket]

\* lines 85-86: degrees_list and edges_basket are deep copies, so the writes
\* of an iteration (lines 117, 119, 123, 124) do not reach the caller's network
CallersNetwork(net, degrees, basket) == net

\* an iteration that consumes the edge but forgets `degrees_list[temp_node] -= 1`
ExtendKeepsDegree ==
  /\ pc = "loop"
  /\ Len(temp_path) > 0
  /\ temp_node \in DOMAIN degrees_list
  /\ degrees_list[temp_node] # 0
  /\ temp_path' = Append(temp_path, temp_node)
  /\ LET neighbors == edges_basket[temp_node]
         prev_node == IF Len(temp_path') >= 2 THEN temp_path'[Len(temp_path') - 1] ELSE -1
     IN IF neighbors # << >>
          THEN LET chosen_index == ChosenIndex(neighbors, prev_node)
                   next_node == neighbors[chosen_index]
                   degrees1 == degrees_list
                   basket1 == [edges_basket EXCEPT ![temp_node] = RemoveAt(@, chosen_index)]
               IN IF ~network.directed
                    THEN LET ri == IndexOf(basket1[next_node], temp_node)
                         IN IF ri = 0
                              THEN \* rev_neighbors.index raises ValueError
                                   /\ pc' = "raised"
                                   /\ result' = "ValueError"
                                   /\ degrees_list' = [degrees1 EXCEPT ![next_node] = @ - 1]
                                   /\ edges_basket' = basket1
                                   /\ UNCHANGED temp_node
                              ELSE /\ degrees_list' = [degrees1 EXCEPT ![next_node] = @ - 1]
                                   /\ edges_basket' =
                                        [basket1 EXCEPT ![next_node] = RemoveAt(@, ri)]
                                   /\ temp_node' = next_node
                                   /\ UNCHANGED <<pc, result>>
                    ELSE /\ degrees_list' = degrees1
                         /\ edges_basket' = basket1
                         /\ temp_node' = next_node
                         /\ UNCHANGED <<pc, result>>
          ELSE UNCHANGED <<degrees_list, edges_basket, temp_node, pc, result>>
  /\ network' = CallersNetwork(network, degrees_list', edges_basket')
  /\ UNCHANGED <<source, path, admVars, workerVars>>

\* lines 99-125: one iteration that extends the walk by an edge.
Extend ==
  /\ pc = "loop"
  /\ Len(temp_path) > 0
  /\ temp_node \in DOMAIN degrees_list
  /\ degrees_list[temp_node] # 0
  /\ temp_path' = Append(temp_path, temp_node)
  /\ LET neighbors == edges_basket[temp_node]
         prev_node == IF Len(temp_path') >= 2 THEN temp_path'[Len(temp_path') - 1] ELSE -1
     IN IF neighbors # << >>
          THEN LET chosen_index == ChosenIndex(neighbors, prev_node)
                   next_node == neighbors[chosen_index]
                   degrees1 == [degrees_list EXCEPT ![temp_node] = @ - 1]
                   basket1 == [edges_basket EXCEPT ![temp_node] = RemoveAt(@, chosen_index)]
               IN IF ~network.directed
                    THEN LET ri == IndexOf(basket1[next_node], temp_node)
                         IN IF ri = 0
                              THEN \* rev_neighbors.index raises ValueError
                                   /\ pc' = "raised"
                                   /\ result' = "ValueError"
                                   /\ degrees_list' = [degrees1 EXCEPT ![next_node] = @ - 1]
                                   /\ edges_basket' = basket1
                                   /\ UNCHANGED temp_node
                              ELSE /\ degrees_list' = [degrees1 EXCEPT ![next_node] = @ - 1]
                                   /\ edges_basket' =
                                        [basket1 EXCEPT ![next_node] = RemoveAt(@, ri)]
                                   /\ temp_node' = next_node
                                   /\ UNCHANGED <<pc, result>>
                    ELSE /\ degrees_list' = degrees1
                         /\ edges_basket' = basket1
                         /\ temp_node' = next_node
                         /\ UNCHANGED <<pc, result>>
          ELSE UNCHANGED <<degrees_list, edges_basket, temp_node, pc, result>>
  /\ network' = CallersNetwork(network, degrees_list', edges_basket')
  /\ UNCHANGED <<source, path, admVars, workerVars>>

\* lines 126-129: one iteration that backtracks.
Backtrack ==
  /\ pc = "loop"
  /\ Len(temp_path) > 0
  /\ temp_node \in DOMAIN degrees_list
  /\ degrees_list[temp_node] = 0
  /\ path' = Append(path, temp_node)
  /\ temp_node' = temp_path[Len(temp_path)]
  /\ temp_path' = SubSeq(temp_path, 1, Len(temp_path) - 1)
  /\ UNCHANGED <<network, source, pc, degrees_list, edges_basket, result, admVars,
                 workerVars>>

Reverse(seq) == [i \in 1..Len(seq) |-> seq[Len(seq) + 1 - i]]

\* a return that slices the closing node off the walk (path[:-1])
ReturnDropLast ==
  /\ pc = "loop"
  /\ Len(temp_path) = 0
  /\ pc' = "done"
  /\ result' = "returned"
  /\ path' = SubSeq(path, 1, Len(path) - 1)
  /\ UNCHANGED <<network, source, degrees_list, edges_basket, temp_path, temp_node,
                 admVars, workerVars>>

\* lines 98, 131-133: the stack is empty, the walk is returned.
Return ==
  /\ pc = "loop"
  /\ Len(temp_path) = 0
  /\ pc' = "done"
  /\ result' = "returned"
  /\ path' = IF network.directed THEN Reverse(path) ELSE path
  /\ UNCHANGED <<network, source, degrees_list, edges_basket, temp_path, temp_node,
                 admVars, workerVars>>

NextEuler ==
  \/ Start
  \/ RaiseIndexError
  \/ Extend
  \/ Backtrack
  \/ Return

SpecEuler == InitEuler /\ [][NextEuler]_vars

\* the call runs on: the interpreter executes the next iteration
SpecEulerFair == SpecEuler /\ WF_vars(NextEuler)

\* the u-v edges of an edge list, counted with multiplicity (u <= v)
EdgeMult(u, v, edges) == Cardinality({i \in 1..Len(edges) : edges[i] = <<u, v>>})

\* the consecutive pairs of a walk that are u, v in either orientation
WalkMult(u, v, walk) ==
  Cardinality({i \in 1..(Len(walk) - 1) :
                 {walk[i], walk[i + 1]} = {u, v}})

RECURSIVE ReachableFrom(_)
ReachableFrom(S) ==
  LET T == S \cup {v \in Nodes(network.n) :
                     \E u \in S \cap Nodes(network.n) :
                        \E i \in 1..Len(network.edges_basket[u]) :
                           network.edges_basket[u][i] = v}
  IN IF T = S THEN S ELSE ReachableFrom(T)

\* every node of non-zero degree is connected to the source
ConnectedFromSource ==
  /\ source \in Nodes(network.n)
  /\ \A v \in Nodes(network.n) :
       network.degrees_list[v] # 0 => v \in ReachableFrom({source})

AllEven == \A u \in Nodes(network.n) : network.degrees_list[u] % 2 = 0

\* C10: on an undirected network with all degrees even whose nodes of
\* non-zero degree are connected to the source, the returned walk has
\* |E| + 1 nodes and every edge occurs in it, as a consecutive pair in either
\* orientation, exactly as often as its multiplicity.
C10_EulerianWalk ==
  (pc = "done" /\ ~network.directed /\ AllEven /\ ConnectedFromSource) =>
    /\ result = "returned"
    /\ Len(path) = Len(network.edges) + 1
    /\ \A u \in Nodes(network.n) : \A v \in Nodes(network.n) :
         u <= v => WalkMult(u, v, path) = EdgeMult(u, v, network.edges)

\* a returned walk over MaxEdges edges, one of them doubled, two distinct
C10_Witness ==
  /\ pc = "done" /\ AllEven /\ ConnectedFromSource
  /\ Len(path) = Len(network.edges) + 1
  /\ Len(network.edges) >= 4
  /\ \E u \in Nodes(network.n) : \E v \in Nodes(network.n) :
       u < v /\ EdgeMult(u, v, network.edges) = 2
  /\ \E u \in Nodes(network.n) : EdgeMult(u, u, network.edges) = 0
                                   /\ network.degrees_list[u] = 4

\* C11: on a connected undirected network with all degrees even, the returned
\* walk is a closed circuit: its first and its last node are the source.
C11_ClosedCircuit ==
  (pc = "done" /\ ~network.directed /\ AllEven /\ ConnectedFromSource) =>
    /\ result = "returned"
    /\ Len(path) >= 1
    /\ path[1] = source
    /\ path[Len(path)] = source

\* the square walked from node 0: 5 nodes, closed, each of the 4 edges once
C11_Witness ==
  /\ pc = "done" /\ network = Square /\ source = 0
  /\ Len(path) = 5
  /\ path[1] = path[5]
  /\ \A u \in Nodes(4) : \A v \in Nodes(4) :
       u < v => WalkMult(u, v, path) = EdgeMult(u, v, network.edges)

\* the call failed at the odd-degree check: nothing consumed, no walk
FailedNotEulerian ==
  /\ pc = "raised"
  /\ result = "NotEulerian"
  /\ path = << >>
  /\ temp_path = << >>
  /\ degrees_list = network.degrees_list
  /\ edges_basket = network.edges_basket

\* C13 (as stated): a call on a non-empty network with a node of odd degree
\* fails with the 'Network is not Eulerian' error before any edge is
\* consumed, and returns no walk.
C13_OddIsRejected ==
  (pc # "start" /\ network.n > 0 /\ ~AllEven) => FailedNotEulerian

\* C13 (amended): the same for every source that passes the check of line 80
\* (source <= network.n).
C13_OddIsRejectedPastSourceCheck ==
  (pc # "start" /\ network.n > 0 /\ ~AllEven /\ source <= network.n) =>
    FailedNotEulerian

\* two odd nodes among nodes of even degree, the source one of the even ones
C13_Witness ==
  /\ FailedNotEulerian
  /\ network.n > 0
  /\ source \in Nodes(network.n)
  /\ network.degrees_list[source] % 2 = 0
  /\ network.degrees_list[source] > 0
  /\ Cardinality({u \in Nodes(network.n) : network.degrees_list[u] % 2 = 1}) = 2

\* the entries v in the bag of u
BasketCount(basket, u, v) ==
  Cardinality({i \in 1..Len(basket[u]) : basket[u][i] = v})

\* the u-v edges a pair of bags still holds (a self-loop has two entries)
Unconsumed(basket, u, v) ==
  IF u = v THEN BasketCount(basket, u, u) \div 2 ELSE BasketCount(basket, u, v)

\* the bags agree with each other and with the degrees
BasketsConsistent(degrees, basket) ==
  /\ \A u \in DOMAIN basket : \A v \in DOMAIN basket :
       BasketCount(basket, u, v) = BasketCount(basket, v, u)
  /\ \A u \in DOMAIN basket :
       /\ degrees[u] = Len(basket[u])
       /\ \A i \in 1..Len(basket[u]) : basket[u][i] \in DOMAIN basket
       /\ BasketCount(basket, u, u) % 2 = 0

\* the edges the bags still hold, all pairs together
RECURSIVE UnconsumedIn(_, _)
UnconsumedIn(basket, pairs) ==
  IF pairs = {} THEN 0
  ELSE LET p == CHOOSE q \in pairs : TRUE
       IN Unconsumed(basket, p[1], p[2]) + UnconsumedIn(basket, pairs \ {p})

NodePairs == {p \in Nodes(network.n) \X Nodes(network.n) : p[1] <= p[2]}

\* C15: on an undirected network the working bags match the unconsumed
\* edges after every loop iteration: entering the loop they hold every edge
\* of the network, an iteration that extends the walk from u to v takes
\* exactly one u-v edge out of them (at both ends), an iteration that
\* backtracks takes none, so that they hold all edges but one per extension
\* made (the nodes on the stack and in the output, less the seed); the
\* entries v at u are always as many as the entries u at v, and
\* degrees_list[u] = len(edges_basket[u]).
C15_BasketsMatchUnconsumed ==
  [][(~network.directed /\ pc' = "loop") =>
       /\ BasketsConsistent(degrees_list', edges_basket')
       /\ UnconsumedIn(edges_basket', NodePairs) =
            Len(network.edges) - (Len(temp_path') + Len(path') - 1)
       /\ \A p \in NodePairs :
            Unconsumed(edges_basket', p[1], p[2]) =
              IF pc = "start"
                THEN EdgeMult(p[1], p[2], network.edges)
              ELSE IF Len(temp_path') > Len(temp_path)
                THEN Unconsumed(edges_basket, p[1], p[2])
                       - (IF {p[1], p[2]} = {temp_node, temp_node'} THEN 1 ELSE 0)
              ELSE Unconsumed(edges_basket, p[1], p[2])]_vars

\* in the loop, a doubled edge with one copy consumed and one left, and
\* another edge still whole
C15_Witness ==
  /\ pc = "loop"
  /\ Len(temp_path) >= 3
  /\ \E p \in NodePairs :
       /\ p[1] # p[2]
       /\ EdgeMult(p[1], p[2], network.edges) = 2
       /\ Unconsumed(edges_basket, p[1], p[2]) = 1
  /\ \E p \in NodePairs :
       /\ EdgeMult(p[1], p[2], network.edges) = 1
       /\ Unconsumed(edges_basket, p[1], p[2]) = 1

\* seq without its i-th entry
Without(seq, i) ==
  [j \in 1..(Len(seq) - 1) |-> IF j < i THEN seq[j] ELSE seq[j + 1]]

\* the highest index of an entry of seq that is not x (0 when all are x)
LastOther(seq, x) ==
  IF \A i \in 1..Len(seq) : seq[i] = x THEN 0
  ELSE CHOOSE i \in 1..Len(seq) :
         seq[i] # x /\ \A j \in (i + 1)..Len(seq) : seq[j] = x

\* C16: at every extension step, with prev the node on top of the stack
\* (the node the current node was reached from): if the current node's bag
\* holds an entry other than prev, the entry consumed is the highest-index
\* such entry, and the walk does not go back to prev; only when every entry
\* is prev is the last entry consumed.
C16_ForwardPreferred ==
  [][(pc = "loop" /\ pc' = "loop" /\ Len(temp_path') > Len(temp_path)) =>
       LET neighbors == edges_basket[temp_node]
           prev == temp_path[Len(temp_path)]
           other == LastOther(neighbors, prev)
           taken == IF other # 0 THEN other ELSE Len(neighbors)
           rest == Without(neighbors, taken)
       IN /\ neighbors # << >>
          /\ temp_node' = neighbors[taken]
          /\ (temp_node' = prev) = (other = 0)
          /\ edges_basket'[temp_node] =
               IF temp_node' = temp_node
                 THEN Without(rest, IndexOf(rest, temp_node))
                 ELSE rest]_vars

\* the walk came from prev to u, a node not seen before, whose bag then ended
\* with another edge to prev; it went on to the last entry that is not prev
C16_Witness ==
  /\ pc = "loop"
  /\ path = << >>
  /\ Len(temp_path) >= 3
  /\ LET u == temp_path[Len(temp_path)]
         prev == temp_path[Len(temp_path) - 1]
         first == network.edges_basket[u]
         bag == Without(first, IndexOf(first, prev))
     IN /\ u # prev
        /\ \A i \in 1..(Len(temp_path) - 1) : temp_path[i] # u
        /\ bag # << >>
        /\ bag[Len(bag)] = prev
        /\ LastOther(bag, prev) # 0
        /\ temp_node = bag[LastOther(bag, prev)]
        /\ temp_node # prev
        /\ edges_basket[u] = Without(bag, LastOther(bag, prev))

\* C17: every call ends; on an undirected network with all degrees even
\* (parallel edges, self-loops, several components) and a source in it, it
\* ends by returning, with the stack empty; and in the loop a node with
\* non-zero remaining degree has an entry to consume, so that every
\* iteration consumes an edge or pops the stack.
C17_Terminates ==
  /\ <>(pc \in {"done", "raised"})
  /\ [](pc = "done" => temp_path = << >>)
  /\ []((~network.directed /\ AllEven /\ source \in Nodes(network.n))
          => pc # "raised")
  /\ []((pc = "loop" /\ temp_node \in DOMAIN degrees_list
           /\ degrees_list[temp_node] # 0)
          => edges_basket[temp_node] # << >>)

\* a returned walk on a network with a doubled edge, a self-loop, and edges
\* in a component the source is not in (they are left unconsumed)
C17_Witness ==
  /\ pc = "done"
  /\ temp_path = << >>
  /\ AllEven
  /\ source \in Nodes(network.n)
  /\ Len(path) >= 3
  /\ \E u \in Nodes(network.n) : EdgeMult(u, u, network.edges) >= 1
  /\ \E u \in Nodes(network.n) : \E v \in Nodes(network.n) :
       u < v /\ EdgeMult(u, v, network.edges) = 2
  /\ \E v \in Nodes(network.n) : degrees_list[v] > 0

C20_BadSourceRejected ==
  (pc # "start" /\ network.n > 0 /\ source \notin Nodes(network.n)) =>
    /\ pc = "raised"
    /\ result = "SourceNotInNetwork"
    /\ temp_path = << >>
    /\ path = << >>

\* ------------------------------------------------ generate_gpx, lines 37-45
\* The street graph after line 31: an undirected multigraph.  graph.nodes is
\* the list of node ids (1..n here), an edge is <<u, v, length>> with u <= v,
\* and graph.edges reports the edges node by node.  EdgeRank is that order.
EdgeRank(e) == (e[1] * (GraphNodes + 2) + e[2]) * (MaxWeight + 2) + e[3]

GraphEdgeTypes(n) == {e \in (1..n) \X (1..n) \X (1..MaxWeight) : e[1] <= e[2]}

\* graph.edges lists the edges node by node
SortedEdges(es) ==
  \A i \in 1..(Len(es) - 1) : EdgeRank(es[i]) <= EdgeRank(es[i + 1])

GraphNodeSet(g) == {g.nodes[i] : i \in DOMAIN g.nodes}

RECURSIVE GraphReach(_, _)
GraphReach(g, S) ==
  LET T == S \cup {v \in GraphNodeSet(g) :
                     \E i \in 1..Len(g.edges) :
                        \/ g.edges[i][1] \in S /\ g.edges[i][2] = v
                        \/ g.edges[i][2] \in S /\ g.edges[i][1] = v}
  IN IF T = S THEN S ELSE GraphReach(g, T)

Connected(g) == GraphReach(g, {g.nodes[1]}) = GraphNodeSet(g)

\* graph.degree(v): a self-loop counts twice
Degree(g, v) == Len(Basket(v, g.edges))

\* everystreet.libs.tools: the nodes of odd degree
get_odd_degree_nodes(g) == {v \in GraphNodeSet(g) : Degree(g, v) % 2 = 1}

\* the shortest edge between a and b (0 when there is none)
HopWeight(g, a, b) ==
  LET ws == {g.edges[i][3] :
               i \in {j \in 1..Len(g.edges) : {g.edges[j][1], g.edges[j][2]} = {a, b}}}
  IN IF ws = {} THEN 0 ELSE CHOOSE w \in ws : \A x \in ws : w <= x

\* the paths from a to b that visit no node twice and none of seen
RECURSIVE SimplePaths(_, _, _, _)
SimplePaths(g, a, b, seen) ==
  IF a = b THEN {<<b>>}
  ELSE UNION {{<<a>> \o p : p \in SimplePaths(g, c, b, seen \cup {a})} :
                c \in {x \in GraphNodeSet(g) \ (seen \cup {a}) :
                         HopWeight(g, a, x) # 0}}

RECURSIVE PathWeight(_, _)
PathWeight(g, p) ==
  IF Len(p) < 2 THEN 0 ELSE HopWeight(g, p[1], p[2]) + PathWeight(g, Tail(p))

\* the shortest paths from a to b, as node lists
ShortestPaths(g, a, b) ==
  {p \in SimplePaths(g, a, b, {}) :
     \A q \in SimplePaths(g, a, b, {}) : PathWeight(g, p) <= PathWeight(g, q)}

\* dijkstra_path_length
Dist(g, a, b) == PathWeight(g, CHOOSE p \in ShortestPaths(g, a, b) : TRUE)

\* everystreet.libs.tools: the shortest-path length of every pair of odd nodes
get_shortest_distance_for_odd_degrees(g, odd) ==
  [p \in {q \in odd \X odd : q[1] < q[2]} |-> Dist(g, p[1], p[2])]

RECURSIVE TotalWeight(_, _)
TotalWeight(pw, M) ==
  IF M = {} THEN 0
  ELSE LET m == CHOOSE x \in M : TRUE IN pw[m] + TotalWeight(pw, M \ {m})

PerfectMatchings(pw) ==
  LET ends == UNION {{p[1], p[2]} : p \in DOMAIN pw}
  IN {M \in SUBSET DOMAIN pw :
        \A v \in ends : Cardinality({m \in M : v \in {m[1], m[2]}}) = 1}

\* everystreet.libs.tools: the perfect matchings of least total weight (the
\* library returns one of them)
min_matching(pw) ==
  {M \in PerfectMatchings(pw) :
     \A M2 \in PerfectMatchings(pw) : TotalWeight(pw, M) <= TotalWeight(pw, M2)}

PathEdges(p) == [i \in 1..(Len(p) - 1) |-> <<p[i], p[i + 1]>>]

\* everystreet.libs.tools: the edges of a shortest path of every matched
\* pair, one pair after the other (the library returns one of these lists)
RECURSIVE get_shortest_paths(_, _)
get_shortest_paths(g, M) ==
  IF M = {} THEN {<< >>}
  ELSE LET m == CHOOSE x \in M : \A y \in M : x[1] <= y[1]
       IN {PathEdges(p) \o rest : p \in ShortestPaths(g, m[1], m[2]),
                                  rest \in get_shortest_paths(g, M \ {m})}

\* the "length" of the first edge between u and v
FirstLength(g, u, v) ==
  LET i == CHOOSE j \in 1..Len(g.edges) :
             /\ {g.edges[j][1], g.edges[j][2]} = {u, v}
             /\ \A l \in 1..(j - 1) : {g.edges[l][1], g.edges[l][2]} # {u, v}
  IN g.edges[i][3]

\* everystreet.libs.tools: node ids to their positions in graph.nodes,
\* counted from 0, with the edge's length
map_osmnx_edges2integers(g, es) ==
  [i \in 1..Len(es) |-> <<IndexOf(g.nodes, es[i][1]) - 1,
                          IndexOf(g.nodes, es[i][2]) - 1,
                          FirstLength(g, es[i][1], es[i][2])>>]

\* an edge list that forgets the added edges
AllEdgesSingleOnly(single, added) == single

\* line 43: single_edges + added_edges
AllEdges(single, added) == single \o added

InitAugment ==
  /\ InitAdmission
  /\ workload = Load(0, 0, 0, {})
  /\ NoCall
  /\ NoExchange
  /\ \E n \in 1..GraphNodes : \E m \in 0..GraphEdges :
       \E es \in [1..m -> GraphEdgeTypes(n)] :
          /\ SortedEdges(es)
          /\ graph = [nodes |-> [i \in 1..n |-> i], edges |-> es]
          /\ Connected(graph)
  /\ gpc = "L37"
  /\ odd_degree_nodes = {}
  /\ pair_weights = << >>
  /\ matched_edges_with_weights = {}
  /\ single_edges = << >>
  /\ added_edges = << >>
  /\ network_edges = << >>

\* line 37
OddDegreeNodes ==
  /\ gpc = "L37"
  /\ odd_degree_nodes' = get_odd_degree_nodes(graph)
  /\ gpc' = "L38"
  /\ UNCHANGED <<graph, pair_weights, matched_edges_with_weights, single_edges,
                 added_edges, network_edges, admVars, eulerVars, xchVars>>

\* line 38
PairWeights ==
  /\ gpc = "L38"
  /\ pair_weights' = get_shortest_distance_for_odd_degrees(graph, odd_degree_nodes)
  /\ gpc' = "L39"
  /\ UNCHANGED <<graph, odd_degree_nodes, matched_edges_with_weights, single_edges,
                 added_edges, network_edges, admVars, eulerVars, xchVars>>

\* line 39
MinMatching ==
  /\ gpc = "L39"
  /\ matched_edges_with_weights' \in min_matching(pair_weights)
  /\ gpc' = "L41"
  /\ UNCHANGED <<graph, odd_degree_nodes, pair_weights, single_edges, added_edges,
                 network_edges, admVars, eulerVars, xchVars>>

\* line 41
SingleEdges ==
  /\ gpc = "L41"
  /\ single_edges' = [i \in 1..Len(graph.edges) |->
                        <<graph.edges[i][1], graph.edges[i][2]>>]
  /\ gpc' = "L42"
  /\ UNCHANGED <<graph, odd_degree_nodes, pair_weights, matched_edges_with_weights,
                 added_edges, network_edges, admVars, eulerVars, xchVars>>

\* line 42
AddedEdges ==
  /\ gpc = "L42"
  /\ added_edges' \in get_shortest_paths(graph, matched_edges_with_weights)
  /\ gpc' = "L43"
  /\ UNCHANGED <<graph, odd_degree_nodes, pair_weights, matched_edges_with_weights,
                 single_edges, network_edges, admVars, eulerVars, xchVars>>

\* line 43
MapEdges ==
  /\ gpc = "L43"
  /\ network_edges' =
       map_osmnx_edges2integers(graph, AllEdges(single_edges, added_edges))
  /\ gpc' = "L45"
  /\ UNCHANGED <<graph, odd_degree_nodes, pair_weights, matched_edges_with_weights,
                 single_edges, added_edges, admVars, eulerVars, xchVars>>

\* line 45
BuildNetwork ==
  /\ gpc = "L45"
  /\ network' = MakeNetwork(Len(graph.nodes), network_edges)
  /\ gpc' = "L46"
  /\ UNCHANGED <<graph, odd_degree_nodes, pair_weights, matched_edges_with_weights,
                 single_edges, added_edges, network_edges, admVars, source, pc,
                 degrees_list, edges_basket, temp_path, temp_node, path, result,
                 xchVars>>

NextAugment ==
  \/ OddDegreeNodes
  \/ PairWeights
  \/ MinMatching
  \/ SingleEdges
  \/ AddedEdges
  \/ MapEdges
  \/ BuildNetwork

SpecAugment == InitAugment /\ [][NextAugment]_vars

\* C12: for every connected weighted undirected graph, the network built
\* from the original edges plus the shortest-path edges of each matched pair
\* of odd-degree nodes has even degree at every node, and holds exactly those
\* edges.
C12_AugmentedAllEven ==
  gpc = "L46" =>
    /\ network.n = Len(graph.nodes)
    /\ Len(network.edges) = Len(graph.edges) + Len(added_edges)
    /\ \A u \in Nodes(network.n) : network.degrees_list[u] % 2 = 0

\* four odd nodes, matched in two pairs, one of them joined by a path of
\* more than one edge
C12_Witness ==
  /\ gpc = "L46"
  /\ Cardinality(odd_degree_nodes) = 4
  /\ Cardinality(matched_edges_with_weights) = 2
  /\ Len(added_edges) >= 3
  /\ AllEven

\* ------------------------- the request from the controller to the worker
\* json.dumps writes JSON text (kept as its parse tree), json.load reads it.
JNull == [json |-> "null"]
JBool(b) == [json |-> IF b THEN "true" ELSE "false"]
JNumber(i) == [json |-> "number", digits |-> i]
JString(s) == [json |-> "string", chars |-> s]
JArray(elements) == [json |-> "array", elements |-> elements]
JObject(members) == [json |-> "object", members |-> members]

RECURSIVE json_dumps(_)
json_dumps(v) ==
  CASE v.type = "NoneType" -> JNull
    [] v.type = "bool" -> JBool(v.bool)
    [] v.type = "int" -> JNumber(v.int)
    [] v.type = "str" -> JString(v.str)
    [] v.type = "list" -> JArray([i \in DOMAIN v.items |-> json_dumps(v.items[i])])
    [] v.type = "dict" ->
         JObject([i \in DOMAIN v.entries |->
                    <<v.entries[i][1], json_dumps(v.entries[i][2])>>])

RECURSIVE json_loads(_)
json_loads(j) ==
  CASE j.json = "null" -> PyNone
    [] j.json = "true" -> PyBool(TRUE)
    [] j.json = "false" -> PyBool(FALSE)
    [] j.json = "number" -> PyInt(j.digits)
    [] j.json = "string" -> PyStr(j.chars)
    [] j.json = "array" ->
         PyList([i \in DOMAIN j.elements |-> json_loads(j.elements[i])])
    [] j.json = "object" ->
         PyDict([i \in DOMAIN j.members |->
                   <<j.members[i][1], json_loads(j.members[i][2])>>])

\* d.get(key, default)
DictGet(d, key, default) ==
  IF \E i \in DOMAIN d.entries : d.entries[i][1] = key
    THEN d.entries[CHOOSE i \in DOMAIN d.entries : d.entries[i][1] = key][2]
    ELSE default

\* app.py line 45: `not polygon_coords or not isinstance(polygon_coords, list)`
InvalidCoords(v) == v.type # "list" \/ v.items = << >>

\* generate_gpx.py lines 14-20
CUSTOM_FILTER == PyStr("CUSTOM_FILTER")

\* the JSON bodies of a request: each key present or not
Points == {PyList(<<PyInt(x), PyInt(y)>>) : x \in 0..MaxCoord, y \in 0..MaxCoord}
Polygons == {PyList(s) : s \in UNION {[1..l -> Points] : l \in 0..MaxPoints}}
Entry(key, values) == {<< >>} \cup {<<<<key, v>>>> : v \in values}
RequestDicts ==
  {PyDict(p \o t \o c \o f) :
     p \in Entry("polygon_coords", Polygons),
     t \in Entry("truncate_by_edge", {PyBool(TRUE), PyBool(FALSE)}),
     c \in Entry("consolidate_tolerance", {PyInt(15), PyInt(30)}),
     f \in Entry("custom_filter", {PyNone, PyStr("[highway~residential]")})}

InitExchange ==
  /\ InitAdmission
  /\ workload = Load(0, 0, 0, {})
  /\ NoCall
  /\ NoAugment
  /\ data \in RequestDicts
  /\ polygon_coords = PyNone
  /\ truncate_by_edge = PyNone
  /\ consolidate_tolerance = PyNone
  /\ custom_filter = PyNone
  /\ input_data = PyNone
  /\ stdin = << >>
  /\ worker_polygon_coords = PyNone
  /\ polygon = PyNone
  /\ extraction = NotExtracted
  /\ xpc = "L40"

\* app.py lines 40-43
GetParameters ==
  /\ xpc = "L40"
  /\ polygon_coords' = DictGet(data, "polygon_coords", PyNone)
  /\ truncate_by_edge' = DictGet(data, "truncate_by_edge", PyBool(TRUE))
  /\ consolidate_tolerance' = DictGet(data, "consolidate_tolerance", PyInt(15))
  /\ custom_filter' = DictGet(data, "custom_filter", PyNone)
  /\ xpc' = "L45"
  /\ UNCHANGED <<data, input_data, stdin, worker_polygon_coords, polygon, extraction,
                 admVars, eulerVars, augVars>>

\* app.py lines 45-67: the 400 answer, or the worker is started
Validate ==
  /\ xpc = "L45"
  /\ xpc' = IF InvalidCoords(polygon_coords) THEN "answered400" ELSE "L70"
  /\ UNCHANGED <<data, polygon_coords, truncate_by_edge, consolidate_tolerance,
                 custom_filter, input_data, stdin, worker_polygon_coords, polygon,
                 extraction, admVars, eulerVars, augVars>>

\* app.py lines 70-78: input_data, written to the worker's stdin
WriteInput ==
  /\ xpc = "L70"
  /\ input_data' = PyDict(<<<<"polygon_coords", polygon_coords>>,
                            <<"truncate_by_edge", truncate_by_edge>>,
                            <<"consolidate_tolerance", consolidate_tolerance>>,
                            <<"custom_filter", custom_filter>>>>)
  /\ stdin' = json_dumps(input_data')
  /\ xpc' = "L137"
  /\ UNCHANGED <<data, polygon_coords, truncate_by_edge, consolidate_tolerance,
                 custom_filter, worker_polygon_coords, polygon, extraction,
                 admVars, eulerVars, augVars>>

\* generate_gpx.py line 137: polygon_coords = json.load(sys.stdin)
ReadInput ==
  /\ xpc = "L137"
  /\ worker_polygon_coords' = json_loads(stdin)
  /\ xpc' = "L139"
  /\ UNCHANGED <<data, polygon_coords, truncate_by_edge, consolidate_tolerance,
                 custom_filter, input_data, stdin, polygon, extraction,
                 admVars, eulerVars, augVars>>

\* generate_gpx.py lines 139, 22-28, 74-75: Polygon(polygon_coords) needs a
\* list of points (it raises on anything else, and generate_gpx returns the
\* message); then the graph is extracted and consolidated.
GenerateGpx ==
  /\ xpc = "L139"
  /\ polygon' = worker_polygon_coords
  /\ IF worker_polygon_coords.type = "list"
       THEN /\ extraction' = [called |-> TRUE,
                              custom_filter |-> CUSTOM_FILTER,
                              truncate_by_edge |-> PyBool(TRUE),
                              tolerance |-> PyInt(15)]
            /\ xpc' = "extracted"
       ELSE /\ UNCHANGED extraction
            /\ xpc' = "raised"
  /\ UNCHANGED <<data, polygon_coords, truncate_by_edge, consolidate_tolerance,
                 custom_filter, input_data, stdin, worker_polygon_coords,
                 admVars, eulerVars, augVars>>

NextExchange ==
  \/ GetParameters
  \/ Validate
  \/ WriteInput
  \/ ReadInput
  \/ GenerateGpx

SpecExchange == InitExchange /\ [][NextExchange]_vars

\* C14: once the worker has dealt with its input, what it read is what the
\* controller wrote, the polygon it extracts the graph from is the request's
\* polygon_coords, and the extraction and consolidation use the request's
\* truncate_by_edge, consolidate_tolerance and custom_filter.
C14_WorkerUsesRequest ==
  xpc \in {"extracted", "raised"} =>
    /\ worker_polygon_coords = input_data
    /\ polygon = polygon_coords
    /\ extraction.called
    /\ extraction.truncate_by_edge = truncate_by_edge
    /\ extraction.tolerance = consolidate_tolerance
    /\ extraction.custom_filter = custom_filter

====
